---- MODULE Spec2Model ----
(***************************************************************************)
(* The serial console of the four-sensor force plate                       *)
(* (src/gui/gui_controller.py; src/cop_visualizer/cop_visualizer.py is the *)
(* same program with another prompt string and another plot widget).       *)
(*                                                                         *)
(* Two kinds of thread: the Tk main loop (App), which runs one callback at *)
(* a time, and the SerialThread workers that App.connect starts.  A step   *)
(* of the model is a piece of one thread's code during which it touches    *)
(* the state it shares with the other threads at most once; what a thread  *)
(* does to its own locals and to the device rides with that access.        *)
(*                                                                         *)
(* A line of text is a sequence of lexemes (words, numbers, separators);   *)
(* a float is its value in hundredths, or nan, or +-inf.                   *)
(***************************************************************************)
EXTENDS Integers, Sequences, FiniteSets, TLC

\* ------------------------------------------------------------ bounds
MaxEvents  == 4     \* buttons pressed by the operator plus lines sent by the device

\* The SerialThread objects App.connect can make within MaxEvents: the Connect
\* button is disabled until Disconnect has been pressed
MaxWorkers == (MaxEvents + 1) \div 2

Workers == 1..MaxWorkers

\* ------------------------------------------------------------ text
WS == {"\r", "\n", " "}

RECURSIVE LStrip(_)
LStrip(s) == IF s # <<>> /\ Head(s) \in WS THEN LStrip(Tail(s)) ELSE s

RECURSIVE RStrip(_)
RStrip(s) ==
    IF s # <<>> /\ s[Len(s)] \in WS THEN RStrip(SubSeq(s, 1, Len(s) - 1)) ELSE s

\* str.strip()
Strip(s) == RStrip(LStrip(s))

\* sub in s
Contains(sub, s) ==
    \E i \in 0..(Len(s) - Len(sub)) : SubSeq(s, i + 1, i + Len(sub)) = sub

\* bytes.decode('utf-8'): fails on a byte sequence that is not UTF-8
Decodable(raw) == \A i \in 1..Len(raw) : raw[i] # "\\xff"

\* The substring SerialThread.run looks for
PROMPT == <<"Enter", " ", "the", " ", "weight", " ", "in", " ", "lbs:">>

PromptRaw  == <<"Calibrating.", " ">> \o PROMPT \o <<"\r", "\n">>
BlankRaw   == <<"\r", "\n">>
WeightRaw  == <<"1.00", ",", "2.00", ",", "3.00", ",", "-4.00", "\r", "\n">>
CopRaw     == <<"(", "0.50", ", ", "-0.25", ")", "\r", "\n">>
BadRaw     == <<"\\xff", "1.00", "\n">>

\* What readline() may return when the device has sent something
RawLines == {PromptRaw, BlankRaw, WeightRaw, BadRaw}

\* ------------------------------------------------------------ floats
Num(v) == [k |-> "num", v |-> v]
NaN    == [k |-> "nan", v |-> 0]
Inf    == [k |-> "inf", v |-> 1]
None   == [k |-> "none", v |-> 0]

\* float(text) for the texts of the model; a text outside the domain raises
\* ValueError
FloatTable ==
    [t \in {"10.0", "5", "nan", "inf", "1.00", "2.00", "3.00", "-4.00", "0.50", "-0.25"} |->
        CASE t = "10.0"  -> Num(1000)
          [] t = "5"     -> Num(500)
          [] t = "nan"   -> NaN
          [] t = "inf"   -> Inf
          [] t = "1.00"  -> Num(100)
          [] t = "2.00"  -> Num(200)
          [] t = "3.00"  -> Num(300)
          [] t = "-4.00" -> Num(-400)
          [] t = "0.50"  -> Num(50)
          [] t = "-0.25" -> Num(-25)]

FloatOK(t) == t \in DOMAIN FloatTable
Float(t)   == FloatTable[t]

Abs(n) == IF n < 0 THEN -n ELSE n

\* str(float): the shortest decimal that round-trips, with at least one
\* fractional digit
PyStr(f) ==
    CASE f.k = "nan" -> "nan"
      [] f.k = "inf" -> IF f.v < 0 THEN "-inf" ELSE "inf"
      [] f.k = "none" -> "None"
      [] f.k = "num" ->
           LET a == Abs(f.v)
               whole == a \div 100
               frac == a % 100
               digits == IF frac % 10 = 0 THEN ToString(frac \div 10)
                         ELSE ToString(frac \div 10) \o ToString(frac % 10)
           IN (IF f.v < 0 THEN "-" ELSE "") \o ToString(whole) \o "." \o digits

\* The texts the operator may leave in the calibration entry
CalTexts == {"10.0", "5", "nan", "abc"}

\* The command characters of the control buttons
Commands == {"r"}

\* ------------------------------------------------------------ parsing
\* [-]?\d+\.\d+ , on lexemes
IsDecimal(t) == t \in {"10.0", "1.00", "2.00", "3.00", "-4.00", "0.50", "-0.25"}

\* self.weight_pattern.match(line): anchored at the start only
weight_match(l) ==
    /\ Len(l) >= 7
    /\ \A i \in {1, 3, 5, 7} : IsDecimal(l[i])
    /\ \A i \in {2, 4, 6} : l[i] = ","

\* self.cop_pattern.match(line): anchored at the start only
cop_match(l) ==
    /\ Len(l) >= 5
    /\ l[1] = "(" /\ IsDecimal(l[2]) /\ l[3] = ", " /\ IsDecimal(l[4]) /\ l[5] = ")"

\* f"{x:.2f}"
Fmt2(f) ==
    LET a == Abs(f.v)
    IN (IF f.v < 0 THEN "-" ELSE "") \o ToString(a \div 100) \o "."
       \o ToString((a % 100) \div 10) \o ToString(a % 10)

PLOT_HISTORY_LENGTH == 100

\* ------------------------------------------------------------ state
VARIABLES
    \* App
    port_var,            \* TRUE iff the port combobox holds a port name
    connect_button,      \* "normal" | "disabled"
    disconnect_button,
    serial_thread,       \* 0 (None) or the worker App.serial_thread refers to
    data_queue,
    log_queue,
    display,             \* log_text, weight_labels, x_com_history, y_com_history
    ui_pc,               \* where the Tk main loop is
    ui_data,             \* the argument of the SerialThread.send call in progress
    tk_error,            \* an exception has left a Tk callback
    \* SerialThread, one entry per worker
    pc,
    serial_connection,   \* "none" | "open" | "closed"
    running,
    calibration_weight,
    is_calibrating,
    line,                \* the local variable `line` of run()
    \* the device side of the link
    written,             \* what has been written to the port, in order
    \* history
    readLog,             \* per worker: the non-empty lines it has read
    taken,               \* the lines process_queues has taken from data_queue
    calls,               \* per worker: the weights of the start_calibration calls
                         \* begun, and how many of the calls have ended
    io_error,            \* the workers whose loop a SerialException has ended
    callback,            \* the button callback Tk ran last
    nevents,             \* operator commands and device lines so far
    \* plot.py, the script
    plot_pc,             \* where the script is
    weights,             \* what read_weight returned last
    xy                   \* what center_of_mass returned last

buttons    == <<connect_button, disconnect_button>>
appVars    == <<port_var, buttons, serial_thread, display, ui_pc, ui_data, tk_error>>
queueVars  == <<data_queue, log_queue>>
threadVars == <<pc, serial_connection, running, calibration_weight,
                is_calibrating, line>>
histVars   == <<readLog, taken, calls, io_error, callback, nevents>>
plotVars   == <<plot_pc, weights, xy>>
vars       == <<appVars, queueVars, threadVars, written, histVars, plotVars>>

\* One more event of the environment
Event == nevents < MaxEvents /\ nevents' = nevents + 1

\* threading.Thread.is_alive()
is_alive(w) == pc[w] \notin {"new", "done"}

\* `self.serial_thread and self.serial_thread.is_alive()`
Connected == serial_thread # 0 /\ is_alive(serial_thread)

\* App.log_message, on the display d
log_message(d, msg) == [d EXCEPT !.log_text = [n |-> @.n + 1, last |-> msg]]

Init ==
    /\ port_var \in BOOLEAN
    /\ connect_button = "normal"
    /\ disconnect_button = "disabled"
    /\ serial_thread = 0
    /\ data_queue = <<>>
    /\ log_queue = <<>>
    /\ display = [log_text |-> [n |-> 0, last |-> <<>>],
                  weight_labels |-> <<"0.0", "0.0", "0.0", "0.0">>,
                  x_com_history |-> <<>>,
                  y_com_history |-> <<>>]
    /\ ui_pc = "idle"
    /\ ui_data = <<>>
    /\ tk_error = FALSE
    /\ pc = [w \in Workers |-> "new"]
    /\ serial_connection = [w \in Workers |-> "none"]
    /\ running = [w \in Workers |-> FALSE]
    /\ calibration_weight = [w \in Workers |-> None]
    /\ is_calibrating = [w \in Workers |-> FALSE]
    /\ line = [w \in Workers |-> <<>>]
    /\ written = <<>>
    /\ readLog = [w \in Workers |-> <<>>]
    /\ taken = <<>>
    /\ calls = [w \in Workers |-> [args |-> <<>>, ended |-> 0]]
    /\ io_error = {}
    /\ callback = ""
    /\ nevents = 0
    /\ plot_pc = "loop"
    /\ weights = None
    /\ xy = None

\* ------------------------------------------------------------ App
\* The operator presses a button: Tk runs its callback when the main loop is idle
Click(name) == ui_pc = "idle" /\ Event /\ callback' = name

\* The SerialThread object App.connect makes: the first one not yet made
NewThread(w) == pc[w] = "new" /\ \A v \in Workers : pc[v] = "new" => w <= v

\* App.connect
connect ==
    /\ Click("connect")
    /\ connect_button = "normal"
    /\ IF ~port_var
       THEN /\ display' = log_message(display, <<"Please select a port first.">>)
            /\ UNCHANGED <<buttons, serial_thread, pc>>
       ELSE /\ \E w \in Workers :
                 /\ NewThread(w)
                 /\ serial_thread' = w
                 /\ pc' = [pc EXCEPT ![w] = "start"]
            /\ connect_button' = "disabled"
            /\ disconnect_button' = "normal"
            /\ UNCHANGED display
    /\ UNCHANGED <<plotVars, port_var, ui_pc, ui_data, tk_error, queueVars, serial_connection,
                   running, calibration_weight, is_calibrating, line, written,
                   readLog, taken, calls, io_error>>

\* SerialThread.stop
stop(w) == running' = [running EXCEPT ![w] = FALSE]

\* App.disconnect
disconnect ==
    /\ Click("disconnect")
    /\ disconnect_button = "normal"
    /\ IF Connected THEN stop(serial_thread) ELSE UNCHANGED running
    /\ connect_button' = "normal"
    /\ disconnect_button' = "disabled"
    /\ UNCHANGED <<plotVars, port_var, serial_thread, display, ui_pc, ui_data, tk_error,
                   queueVars, pc, serial_connection, calibration_weight,
                   is_calibrating, line, written, readLog, taken, calls, io_error>>

\* App.send_command with the test `if self.serial_thread:` only, without
\* is_alive()
send_command_unchecked(cmd) ==
    /\ Click("send_command")
    /\ IF serial_thread # 0
       THEN /\ ui_pc' = "send"
            /\ ui_data' = <<cmd>>
            /\ UNCHANGED display
       ELSE /\ display' = log_message(display, <<"Not connected.">>)
            /\ UNCHANGED <<ui_pc, ui_data>>
    /\ UNCHANGED <<plotVars, port_var, buttons, serial_thread, tk_error, queueVars,
                   threadVars, written, readLog, taken, calls, io_error>>

\* App.send_command, up to the call of SerialThread.send
send_command(cmd) ==
    /\ Click("send_command")
    /\ IF Connected
       THEN /\ ui_pc' = "send"
            /\ ui_data' = <<cmd>>
            /\ UNCHANGED display
       ELSE /\ display' = log_message(display, <<"Not connected.">>)
            /\ UNCHANGED <<ui_pc, ui_data>>
    /\ UNCHANGED <<plotVars, port_var, buttons, serial_thread, tk_error, queueVars,
                   threadVars, written, readLog, taken, calls, io_error>>

\* SerialThread.start_calibration keeping the pending weight of an armed
\* session (first writer wins)
set_weight_unless_armed(w, weight) ==
    calibration_weight' = [calibration_weight EXCEPT ![w] =
                               IF is_calibrating[w] THEN @ ELSE weight]

\* SerialThread.start_calibration: self._calibration_weight = weight
set_weight(w, weight) ==
    calibration_weight' = [calibration_weight EXCEPT ![w] = weight]

\* App.start_calibration, up to the first assignment of
\* SerialThread.start_calibration (self._calibration_weight = weight)
start_calibration(text) ==
    /\ Click("start_calibration")
    /\ IF ~Connected
       THEN /\ display' = log_message(display, <<"Not connected.">>)
            /\ UNCHANGED <<ui_pc, calibration_weight, calls>>
       ELSE IF ~FloatOK(text)
       THEN /\ display' = log_message(display,
                <<"Error: Invalid calibration weight. Please enter a number.">>)
            /\ UNCHANGED <<ui_pc, calibration_weight, calls>>
       ELSE /\ set_weight(serial_thread, Float(text))
            /\ calls' = [calls EXCEPT ![serial_thread].args = Append(@, Float(text))]
            /\ ui_pc' = "arm"
            /\ UNCHANGED display
    /\ UNCHANGED <<plotVars, port_var, buttons, serial_thread, ui_data, tk_error, queueVars,
                   pc, serial_connection, running, is_calibrating, line, written,
                   readLog, taken, io_error>>

\* SerialThread.start_calibration: self._is_calibrating = True, then the call
\* self.send('k')
arm ==
    /\ ui_pc = "arm"
    /\ is_calibrating' = [is_calibrating EXCEPT ![serial_thread] = TRUE]
    /\ ui_pc' = "send"
    /\ ui_data' = <<"k">>
    /\ UNCHANGED <<plotVars, port_var, buttons, serial_thread, display, tk_error, queueVars,
                   pc, serial_connection, running, calibration_weight, line,
                   written, histVars>>

\* The Tk callback that called send returns, or an exception leaves it
Return(raised) ==
    /\ ui_pc' = "idle"
    /\ ui_data' = <<>>
    /\ tk_error' = (tk_error \/ raised)
    /\ calls' = IF callback = "start_calibration"
                THEN [calls EXCEPT ![serial_thread].ended = @ + 1]
                ELSE calls

\* SerialThread.send on the Tk thread:
\* if self.serial_connection and self.serial_connection.is_open
ui_send ==
    /\ ui_pc = "send"
    /\ IF serial_connection[serial_thread] = "open"
       THEN /\ ui_pc' = "write"
            /\ UNCHANGED <<ui_data, tk_error, calls>>
       ELSE Return(FALSE)
    /\ UNCHANGED <<plotVars, port_var, buttons, serial_thread, display, queueVars,
                   threadVars, written, readLog, taken, io_error, callback, nevents>>

\* Serial.write has put the bytes on the wire, and send logs them
Sent(w, data) ==
    /\ written' = Append(written, [by |-> w, data |-> data])
    /\ log_queue' = Append(log_queue, <<"Sent: ">> \o Strip(data))

\* SerialThread.send on the Tk thread: serial_connection.write(...) and the log
\* entry.  The write raises when the worker has closed the port since the test,
\* and may raise SerialException on an open port.
ui_write ==
    /\ ui_pc = "write"
    /\ \/ /\ serial_connection[serial_thread] = "open"
          /\ Sent(serial_thread, ui_data)
          /\ Return(FALSE)
       \/ /\ Return(TRUE)
          /\ UNCHANGED <<written, log_queue>>
    /\ UNCHANGED <<plotVars, port_var, buttons, serial_thread, display, data_queue,
                   threadVars, readLog, taken, io_error, callback, nevents>>

\* App.update_cop_display trimming as soon as the history is full
\* (>= for >)
update_cop_display_trims_full(d, x, y) ==
    LET xs == Append(d.x_com_history, x)
        ys == Append(d.y_com_history, y)
        trim == Len(xs) >= PLOT_HISTORY_LENGTH
    IN [d EXCEPT !.x_com_history = IF trim THEN Tail(xs) ELSE xs,
                 !.y_com_history = IF trim THEN Tail(ys) ELSE ys]

\* App.update_cop_display, on the display d
update_cop_display(d, x, y) ==
    LET xs == Append(d.x_com_history, x)
        ys == Append(d.y_com_history, y)
        trim == Len(xs) > PLOT_HISTORY_LENGTH
    IN [d EXCEPT !.x_com_history = IF trim THEN Tail(xs) ELSE xs,
                 !.y_com_history = IF trim THEN Tail(ys) ELSE ys]

\* App.parse_and_update clamping the CoP coordinates to [-1, 1]
parse_and_update_clamped(d, l) ==
    LET d1 == log_message(d, <<"Received: ">> \o l)
        clamp(f) == IF f.v > 100 THEN Num(100) ELSE IF f.v < -100 THEN Num(-100) ELSE f
    IN IF weight_match(l)
       THEN [d1 EXCEPT !.weight_labels =
                [i \in 1..4 |-> Fmt2(Float(l[2 * i - 1]))]]
       ELSE IF cop_match(l)
       THEN update_cop_display(d1, clamp(Float(l[2])), clamp(Float(l[4])))
       ELSE d1

\* App.parse_and_update logging "Received" only once a pattern has matched
parse_and_update_quiet(d, l) ==
    LET d1 == log_message(d, <<"Received: ">> \o l)
    IN IF weight_match(l)
       THEN [d1 EXCEPT !.weight_labels =
                [i \in 1..4 |-> Fmt2(Float(l[2 * i - 1]))]]
       ELSE IF cop_match(l)
       THEN update_cop_display(d1, Float(l[2]), Float(l[4]))
       ELSE d

\* App.parse_and_update, on the display d
parse_and_update(d, l) ==
    LET d1 == log_message(d, <<"Received: ">> \o l)
    IN IF weight_match(l)
       THEN [d1 EXCEPT !.weight_labels =
                [i \in 1..4 |-> Fmt2(Float(l[2 * i - 1]))]]
       ELSE IF cop_match(l)
       THEN update_cop_display(d1, Float(l[2]), Float(l[4]))
       ELSE d1

\* while not self.log_queue.empty(): self.log_message(self.log_queue.get_nowait())
RECURSIVE drain_logs(_, _)
drain_logs(d, q) ==
    IF q = <<>> THEN d ELSE drain_logs(log_message(d, Head(q)), Tail(q))

\* while not self.data_queue.empty(): self.parse_and_update(...get_nowait())
RECURSIVE drain_data(_, _)
drain_data(d, q) ==
    IF q = <<>> THEN d ELSE drain_data(parse_and_update(d, Head(q)), Tail(q))

\* App.process_queues, called by the timer: the loop over log_queue.  A worker
\* only appends to the queue, so an entry it puts while the loop runs is one it
\* put before the loop.
process_logs ==
    /\ ui_pc = "idle"
    /\ log_queue # <<>> \/ data_queue # <<>>
    /\ display' = drain_logs(display, log_queue)
    /\ log_queue' = <<>>
    /\ ui_pc' = "data"
    /\ UNCHANGED <<plotVars, port_var, buttons, serial_thread, ui_data, tk_error,
                   data_queue, threadVars, written, histVars>>

\* App.process_queues: the loop over data_queue, and the timer is set again
process_data ==
    /\ ui_pc = "data"
    /\ display' = drain_data(display, data_queue)
    /\ taken' = taken \o data_queue
    /\ data_queue' = <<>>
    /\ ui_pc' = "idle"
    /\ UNCHANGED <<plotVars, port_var, buttons, serial_thread, ui_data, tk_error,
                   log_queue, threadVars, written, readLog, calls, io_error,
                   callback, nevents>>

\* ------------------------------------------------------------ SerialThread.run
Goto(w, l) == pc' = [pc EXCEPT ![w] = l]

\* run() whose handler of the failed open logs and falls through to the loop
open_falls_through(w) ==
    /\ pc[w] = "start"
    /\ \/ /\ serial_connection' = [serial_connection EXCEPT ![w] = "open"]
          /\ Goto(w, "opened")
          /\ UNCHANGED log_queue
       \/ /\ log_queue' = Append(log_queue, <<"Error: Failed to connect.">>)
          /\ Goto(w, "opened")
          /\ UNCHANGED serial_connection
    /\ UNCHANGED <<plotVars, appVars, data_queue, running, calibration_weight, is_calibrating,
                   line, written, histVars>>

\* serial.Serial(port, baudrate, timeout=1), and the handler of its failure
open(w) ==
    /\ pc[w] = "start"
    /\ \/ /\ serial_connection' = [serial_connection EXCEPT ![w] = "open"]
          /\ Goto(w, "opened")
          /\ UNCHANGED log_queue
       \/ /\ log_queue' = Append(log_queue, <<"Error: Failed to connect.">>)
          /\ Goto(w, "done")
          /\ UNCHANGED serial_connection
    /\ UNCHANGED <<plotVars, appVars, data_queue, running, calibration_weight, is_calibrating,
                   line, written, histVars>>

\* self.running = True, and the log entry
set_running(w) ==
    /\ pc[w] = "opened"
    /\ running' = [running EXCEPT ![w] = TRUE]
    /\ log_queue' = Append(log_queue, <<"Successfully connected.">>)
    /\ Goto(w, "loop")
    /\ UNCHANGED <<plotVars, appVars, data_queue, serial_connection, calibration_weight,
                   is_calibrating, line, written, histVars>>

\* while self.running:
loop(w) ==
    /\ pc[w] = "loop"
    /\ Goto(w, IF running[w] THEN "read" ELSE "close")
    /\ UNCHANGED <<plotVars, appVars, queueVars, serial_connection, running,
                   calibration_weight, is_calibrating, line, written, histVars>>

\* The handler of SerialException with `continue` for `break`
serial_exception_continues(w) ==
    /\ log_queue' = Append(log_queue, <<"Error: Serial device disconnected.">>)
    /\ io_error' = io_error \cup {w}
    /\ Goto(w, "loop")

\* except serial.SerialException: the log entry, and break
serial_exception(w) ==
    /\ log_queue' = Append(log_queue, <<"Error: Serial device disconnected.">>)
    /\ io_error' = io_error \cup {w}
    /\ Goto(w, "close")

\* The prompt test without `and self._is_calibrating`
Prompted_unarmed(w, l) == Contains(PROMPT, l)

\* if "Enter the weight in lbs:" in line and self._is_calibrating:
Prompted(w, l) == Contains(PROMPT, l) /\ is_calibrating[w]

\* line = self.serial_connection.readline().decode('utf-8').strip()
\* if line: if <prompt> in line and self._is_calibrating:
read(w) ==
    /\ pc[w] = "read"
    /\ \/ \* the read times out: b''
          /\ Goto(w, "loop")
          /\ UNCHANGED <<log_queue, line, readLog, io_error, nevents>>
       \/ \E raw \in RawLines :
             /\ Event
             /\ IF ~Decodable(raw)
                THEN \* except Exception as e: the log entry, and the loop goes on
                     /\ log_queue' = Append(log_queue,
                                            <<"An error occurred in serial thread.">>)
                     /\ Goto(w, "loop")
                     /\ UNCHANGED <<line, readLog>>
                ELSE /\ line' = [line EXCEPT ![w] = Strip(raw)]
                     /\ IF Strip(raw) # <<>>
                        THEN /\ readLog' = [readLog EXCEPT ![w] =
                                   Append(@, [line |-> Strip(raw),
                                              ended |-> calls[w].ended])]
                             /\ Goto(w, IF Prompted(w, Strip(raw))
                                        THEN "reply" ELSE "put")
                        ELSE /\ Goto(w, "loop")
                             /\ UNCHANGED readLog
                     /\ UNCHANGED log_queue
             /\ UNCHANGED io_error
       \/ /\ serial_exception(w)
          /\ UNCHANGED <<line, readLog, nevents>>
    /\ UNCHANGED <<plotVars, appVars, data_queue, serial_connection, running,
                   calibration_weight, is_calibrating, written, taken, calls,
                   callback>>

\* self.send(f"{self._calibration_weight}\n"); the write may raise
\* SerialException
reply(w) ==
    /\ pc[w] = "reply"
    /\ \/ /\ IF serial_connection[w] = "open"
             THEN Sent(w, <<PyStr(calibration_weight[w]), "\n">>)
             ELSE UNCHANGED <<written, log_queue>>
          /\ Goto(w, "log_weight")
          /\ UNCHANGED io_error
       \/ /\ serial_connection[w] = "open"
          /\ serial_exception(w)
          /\ UNCHANGED written
    /\ UNCHANGED <<plotVars, appVars, data_queue, serial_connection, running,
                   calibration_weight, is_calibrating, line, readLog, taken, calls,
                   callback, nevents>>

\* self.log_queue.put(f"Sent calibration weight: {self._calibration_weight}")
log_weight(w) ==
    /\ pc[w] = "log_weight"
    /\ log_queue' = Append(log_queue, <<"Sent calibration weight: ",
                                        PyStr(calibration_weight[w])>>)
    /\ Goto(w, "clear")
    /\ UNCHANGED <<plotVars, appVars, data_queue, serial_connection, running,
                   calibration_weight, is_calibrating, line, written, histVars>>

\* run() going back to the loop after the reply (`continue`), without the put
clear_continues(w) ==
    /\ pc[w] = "clear"
    /\ is_calibrating' = [is_calibrating EXCEPT ![w] = FALSE]
    /\ Goto(w, "loop")
    /\ UNCHANGED <<plotVars, appVars, queueVars, serial_connection, running,
                   calibration_weight, line, written, histVars>>

\* run() without `self._is_calibrating = False`
clear_keeps(w) ==
    /\ pc[w] = "clear"
    /\ Goto(w, "put")
    /\ UNCHANGED <<plotVars, appVars, queueVars, serial_connection, running,
                   calibration_weight, is_calibrating, line, written, histVars>>

\* self._is_calibrating = False
clear(w) ==
    /\ pc[w] = "clear"
    /\ is_calibrating' = [is_calibrating EXCEPT ![w] = FALSE]
    /\ Goto(w, "put")
    /\ UNCHANGED <<plotVars, appVars, queueVars, serial_connection, running,
                   calibration_weight, line, written, histVars>>

\* run() putting the line at the head of the queue
put_front(w) ==
    /\ pc[w] = "put"
    /\ data_queue' = <<line[w]>> \o data_queue
    /\ Goto(w, "loop")
    /\ UNCHANGED <<plotVars, appVars, log_queue, serial_connection, running,
                   calibration_weight, is_calibrating, line, written, histVars>>

\* self.data_queue.put(line)
put(w) ==
    /\ pc[w] = "put"
    /\ data_queue' = Append(data_queue, line[w])
    /\ Goto(w, "loop")
    /\ UNCHANGED <<plotVars, appVars, log_queue, serial_connection, running,
                   calibration_weight, is_calibrating, line, written, histVars>>

\* run() that goes to its last log entry without closing the port
close_skipped(w) ==
    /\ pc[w] = "close"
    /\ Goto(w, "closed")
    /\ UNCHANGED <<plotVars, appVars, queueVars, serial_connection, running,
                   calibration_weight, is_calibrating, line, written, histVars>>

\* if self.serial_connection and self.serial_connection.is_open: close()
close(w) ==
    /\ pc[w] = "close"
    /\ serial_connection' = [serial_connection EXCEPT ![w] =
           IF @ = "open" THEN "closed" ELSE @]
    /\ Goto(w, "closed")
    /\ UNCHANGED <<plotVars, appVars, queueVars, running, calibration_weight, is_calibrating,
                   line, written, histVars>>

\* self.log_queue.put("Serial connection closed."), and run() returns
log_closed(w) ==
    /\ pc[w] = "closed"
    /\ log_queue' = Append(log_queue, <<"Serial connection closed.">>)
    /\ Goto(w, "done")
    /\ UNCHANGED <<plotVars, appVars, data_queue, serial_connection, running,
                   calibration_weight, is_calibrating, line, written, histVars>>

\* SerialThread.run
run(w) ==
    \/ open(w)
    \/ set_running(w)
    \/ loop(w)
    \/ read(w)
    \/ reply(w)
    \/ log_weight(w)
    \/ clear(w)
    \/ put(w)
    \/ close(w)
    \/ log_closed(w)

Next ==
    \/ connect
    \/ disconnect
    \/ \E cmd \in Commands : send_command(cmd)
    \/ \E text \in CalTexts : start_calibration(text)
    \/ arm
    \/ ui_send
    \/ ui_write
    \/ process_logs
    \/ process_data
    \/ \E w \in Workers : run(w)

Spec == Init /\ [][Next]_vars

\* The threads are scheduled fairly: a worker that can take a step of run()
\* takes one, and Tk finishes the callback it is in and runs the timer's.
\* Nothing makes the operator press a button.  A readline() that returns on
\* timeout is a step of run(), so read(w) never blocks a worker.
Fairness ==
    /\ \A w \in Workers : WF_vars(run(w))
    /\ WF_vars(arm \/ ui_send \/ ui_write \/ process_logs \/ process_data)

FairSpec == Spec /\ Fairness

\* ------------------------------------------------------------ the UI alone
\* App.process_queues, one turn of the loop over data_queue, on the line l:
\* line = self.data_queue.get_nowait(); self.parse_and_update(line)
take(l) ==
    /\ display' = parse_and_update(display, l)
    /\ taken' = Append(taken, l)
    /\ UNCHANGED <<plotVars, port_var, buttons, serial_thread, ui_pc, ui_data, tk_error,
                   queueVars, threadVars, written, readLog, calls, io_error,
                   callback, nevents>>

\* The CoP lines of a stream, which repeats after three readings
CopLines == << Strip(CopRaw),
               <<"(", "3.00", ", ", "-4.00", ")">>,
               <<"(", "-0.25", ", ", "1.00", ")">> >>

MaxPushes == 104    \* CoP lines taken in a run of HistSpec

\* The UI takes the readings of a CoP stream, which may start at any of them
HistNext ==
    /\ Len(taken) < MaxPushes
    /\ \E i \in 1..Len(CopLines) :
          /\ taken # <<>> => CopLines[((i + 1) % 3) + 1] = taken[Len(taken)]
          /\ take(CopLines[i])

HistSpec == Init /\ [][HistNext]_vars

\* Lines the UI may find in data_queue: a weight reading with a negative
\* value, one with text after the fourth value, one whose fourth value has no
\* fraction, CoP readings inside and outside [-1, 1], the prompt, other text
ParseLines ==
    { Strip(WeightRaw),
      <<"1.00", ",", "2.00", ",", "3.00", ",", "0.50", " ", "lbs">>,
      <<"1.00", ",", "2.00", ",", "3.00", ",", "5">>,
      Strip(CopRaw),
      <<"(", "3.00", ", ", "-4.00", ")">>,
      Strip(PromptRaw),
      <<"garbage">> }

MaxLines == 3       \* lines taken in a run of ParseSpec

\* The UI takes any line
ParseNext == Len(taken) < MaxLines /\ \E l \in ParseLines : take(l)

ParseSpec == Init /\ [][ParseNext]_vars

\* ------------------------------------------------------------ plot.py
\* An exception of the class e leaves the function
Raised(e) == [k |-> "raised", v |-> e]

\* A list, a tuple
List(s) == [k |-> "list", v |-> s]

\* line.split(','), on lexemes
RECURSIVE Split(_)
Split(l) ==
    IF \A i \in 1..Len(l) : l[i] # ","
    THEN <<l>>
    ELSE LET i == CHOOSE j \in 1..Len(l) :
                      l[j] = "," /\ \A m \in 1..(j - 1) : l[m] # ","
         IN <<SubSeq(l, 1, i - 1)>> \o Split(SubSeq(l, i + 1, Len(l)))

\* float(part) does not raise ValueError
PartOK(part) == Len(part) = 1 /\ FloatOK(part[1])

\* max(0.0, w): w if w > 0.0, else 0.0 (so 0.0 for nan)
Max0(f) == IF f.k \in {"num", "inf"} /\ f.v > 0 THEN f ELSE Num(0)

\* The quotient n / d of two finite floats, d # 0, as the exact fraction
Quot(n, d) == [k |-> "quot", v |-> <<n, d>>]

\* a + b
FAdd(a, b) ==
    CASE a.k = "nan" \/ b.k = "nan" -> NaN
      [] a.k = "inf" /\ b.k = "inf" -> IF a.v = b.v THEN a ELSE NaN
      [] a.k = "inf" -> a
      [] b.k = "inf" -> b
      [] OTHER -> Num(a.v + b.v)

\* -a
FNeg(a) == IF a.k = "nan" THEN a ELSE [a EXCEPT !.v = -@]

\* a - b
FSub(a, b) == FAdd(a, FNeg(b))

Sign(n) == IF n < 0 THEN -1 ELSE 1

\* a / b; float division by 0.0 raises ZeroDivisionError
FDiv(a, b) ==
    CASE b.k = "num" /\ b.v = 0 -> Raised("ZeroDivisionError")
      [] a.k = "nan" \/ b.k = "nan" -> NaN
      [] a.k = "inf" /\ b.k = "inf" -> NaN
      [] a.k = "inf" -> [k |-> "inf", v |-> a.v * Sign(b.v)]
      [] b.k = "inf" -> Num(0)
      [] OTHER -> Quot(a.v, b.v)

\* plot.center_of_mass(weights)
center_of_mass(ws) ==
    LET WA == ws[1]
        WB == ws[2]
        WC == ws[3]
        WD == ws[4]
        W_total == FAdd(FAdd(FAdd(WA, WB), WC), WD)
        x == FDiv(FSub(FAdd(WB, WC), FAdd(WA, WD)), W_total)
        y == FDiv(FSub(FAdd(WC, WD), FAdd(WA, WB)), W_total)
    IN IF W_total = Num(0) THEN List(<<Num(0), Num(0)>>)
       ELSE IF x.k = "raised" THEN x
       ELSE IF y.k = "raised" THEN y
       ELSE List(<<x, y>>)

\* plot.read_weight(ser), ser being what the port has: the bytes waiting and
\* the line readline() will return
read_weight(ser) ==
    IF ser.in_waiting > 0
    THEN IF ~Decodable(ser.readline)
         THEN Raised("UnicodeDecodeError")
         ELSE LET parts == Split(Strip(ser.readline))
              IN IF \E i \in 1..Len(parts) : ~PartOK(parts[i]) THEN None
                 ELSE IF Len(parts) # 4 THEN None
                 ELSE List([i \in 1..4 |-> Max0(Float(parts[i][1]))])
    ELSE None

\* The values the device may send to the script, and other text
PlotTokens == {"1.00", "0.50", "-4.00", "nan", "inf", "abc"}

Joined(ts) ==
    [i \in 1..(2 * Len(ts) + 1) |->
        IF i = 2 * Len(ts) THEN "\r"
        ELSE IF i = 2 * Len(ts) + 1 THEN "\n"
        ELSE IF i % 2 = 1 THEN ts[(i + 1) \div 2] ELSE ","]

\* What readline() may return to the script
PlotRawLines ==
    {Joined(ts) : ts \in [1..4 -> PlotTokens]}
    \cup {Joined(<<"1.00", "0.50", "1.00">>),
          Joined(<<"1.00", "0.50", "1.00", "0.50", "1.00">>),
          <<"1.00", ",", "0.50", ",", "1.00", ",", "0.50", " ", "lbs", "\n">>,
          BlankRaw, CopRaw, BadRaw}

\* The quiet rest of the plot script
plotRest == <<appVars, queueVars, threadVars, written, histVars>>

\* The main loop: weights = read_weight(ser); if weights:
plot_read ==
    /\ plot_pc = "loop"
    /\ \E n \in {0, 1}, raw \in PlotRawLines :
          LET r == read_weight([in_waiting |-> n, readline |-> raw])
          IN /\ weights' = r
             /\ plot_pc' = CASE r.k = "raised" -> "ended"
                             [] r.k = "list" -> "com"
                             [] OTHER -> "loop"
    /\ UNCHANGED <<xy, plotRest>>

\* x, y = center_of_mass(weights), and the rest of the turn of the loop
plot_com ==
    /\ plot_pc = "com"
    /\ xy' = center_of_mass(weights.v)
    /\ plot_pc' = IF xy'.k = "raised" THEN "ended" ELSE "loop"
    /\ UNCHANGED <<weights, plotRest>>

\* ser.in_waiting or ser.readline() raises SerialException: the script reports
\* it and ends
plot_serial_exception ==
    /\ plot_pc = "loop"
    /\ plot_pc' = "ended"
    /\ UNCHANGED <<weights, xy, plotRest>>

PlotNext == plot_read \/ plot_com \/ plot_serial_exception

PlotSpec == Init /\ [][PlotNext]_vars

\* ------------------------------------------------------------ properties
Last(s) == s[Len(s)]

\* A write of f"{weight}\n"
IsReply(e) == Len(e.data) = 2 /\ e.data[2] = "\n"

\* The weight replies written through worker w's port
RepliesBy(w) == SelectSeq(written, LAMBDA e : e.by = w /\ IsReply(e))

\* The trigger bytes written through worker w's port
TriggersBy(w) == SelectSeq(written, LAMBDA e : e.by = w /\ e.data = <<"k">>)

\* The reply that carries the weight f
Reply(w, f) == [by |-> w, data |-> <<PyStr(f), "\n">>]

\* Worker w is between the calibration test and the put of the line it read
InFlight(w) ==
    IF pc[w] \in {"reply", "log_weight", "clear", "put"} THEN <<line[w]>> ELSE <<>>

LinesRead(w) == [i \in 1..Len(readLog[w]) |-> readLog[w][i].line]

\* C1: after one start_calibration(w) has returned, once the worker has
\* processed a prompt line it read after the return (it is about to forward
\* the line), exactly one reply has been written through its port, the reply
\* is "<w>\n", and the armed flag is clear; and a worker never writes more
\* replies than start_calibration calls were made on it, so a later prompt
\* line without a new call adds none.
C1_OneReplyPerArm ==
    \A w \in Workers :
        /\ Len(RepliesBy(w)) <= Len(calls[w].args)
        /\ ( /\ pc[w] = "put"
             /\ Contains(PROMPT, line[w])
             /\ Len(calls[w].args) = 1
             /\ Last(readLog[w]).ended = 1 )
           => /\ RepliesBy(w) = <<Reply(w, calls[w].args[1])>>
              /\ ~is_calibrating[w]

\* A second prompt line, read after the only call returned, has been processed
C1_Witness ==
    \E w \in Workers :
        /\ pc[w] = "put"
        /\ Len(calls[w].args) = 1
        /\ Len(readLog[w]) = 2
        /\ \A i \in 1..2 : Contains(PROMPT, readLog[w][i].line)
                           /\ readLog[w][i].ended = 1
        /\ Len(RepliesBy(w)) = 1

\* C2: at most one worker thread is alive at any time.
C2_AtMostOneAlive == Cardinality({w \in Workers : is_alive(w)}) <= 1

\* Disconnect has been pressed since App.connect made worker w: stop() has
\* been called on w, unless w had already terminated
StopIssued(w) == serial_thread = w /\ disconnect_button = "disabled"

\* C3: after disconnect() has called stop() on a live worker, the worker
\* eventually terminates (under fair scheduling, reads returning on timeout).
C3_StopTerminates == \A w \in Workers : StopIssued(w) ~> (pc[w] = "done")

\* C4: with a single worker and no I/O error, the lines process_queues has
\* taken, then those waiting in data_queue, then the one the worker is about to
\* put, are the non-empty lines the worker has read, in order; and no empty
\* line is forwarded.
C4_LinesInOrder ==
    /\ \A i \in 1..Len(taken \o data_queue) : (taken \o data_queue)[i] # <<>>
    /\ ((\A w \in Workers : w # 1 => pc[w] = "new") /\ io_error = {})
       => taken \o data_queue \o InFlight(1) = LinesRead(1)

\* Two different lines have been taken in the order read, and a blank line
\* read after them has been dropped
C4_Witness ==
    /\ \A w \in Workers : w # 1 => pc[w] = "new"
    /\ io_error = {}
    /\ Len(taken) = 2 /\ taken[1] # taken[2]
    /\ line[1] = <<>>
    /\ nevents = 4

\* Every prompt line worker w has read, it read after two calls had returned
PromptsAfterTwoCalls(w) ==
    \A i \in 1..Len(readLog[w]) :
        Contains(PROMPT, readLog[w][i].line) => readLog[w][i].ended = 2

\* C5: when start_calibration(w1) and start_calibration(w2) have both
\* returned before the worker processes any prompt line, every reply the
\* worker writes carries w2, it writes at most one, and it has written one
\* once it has processed the first prompt line.
C5_LastWriterWins ==
    \A w \in Workers :
        (Len(calls[w].args) = 2 /\ calls[w].ended = 2 /\ PromptsAfterTwoCalls(w))
        => /\ \A i \in 1..Len(RepliesBy(w)) :
                  RepliesBy(w)[i] = Reply(w, calls[w].args[2])
           /\ Len(RepliesBy(w)) <= 1
           /\ (pc[w] = "put" /\ Contains(PROMPT, line[w]))
              => Len(RepliesBy(w)) = 1

\* Two calls with different weights, then a prompt line, processed
C5_Witness ==
    \E w \in Workers :
        /\ Len(calls[w].args) = 2 /\ calls[w].ended = 2
        /\ calls[w].args[1] # calls[w].args[2]
        /\ PromptsAfterTwoCalls(w)
        /\ pc[w] = "put" /\ Contains(PROMPT, line[w])
        /\ RepliesBy(w) = <<Reply(w, calls[w].args[2])>>

\* C6: every start_calibration call that armed worker w's session has written
\* exactly one 'k' through w's port by the time it returns.
C6_ArmWritesTrigger ==
    \A w \in Workers :
        (ui_pc = "idle" \/ serial_thread # w)
        => Len(TriggersBy(w)) = calls[w].ended

\* C7: a prompt line read while the session is not armed goes straight to the
\* put, with no write and no change of the calibration state, and the put
\* appends it to data_queue.
C7_UnarmedPromptForwarded ==
    [][\A w \in Workers :
          /\ ( /\ pc[w] = "read"
               /\ Len(readLog'[w]) = Len(readLog[w]) + 1
               /\ Contains(PROMPT, line'[w])
               /\ ~is_calibrating[w] )
             => /\ pc'[w] = "put"
                /\ UNCHANGED <<written, is_calibrating, calibration_weight>>
          /\ (pc[w] = "put" /\ pc'[w] # "put")
             => data_queue' = Append(data_queue, line[w])]_vars

\* A prompt line has reached the UI though no session was ever armed, and
\* nothing was written
C7_Witness ==
    /\ \A w \in Workers : calls[w].args = <<>>
    /\ written = <<>>
    /\ \E i \in 1..Len(taken) : Contains(PROMPT, taken[i])

\* C8: send_command with no live worker appends the one log line
\* "Not connected." and writes nothing: no send is begun.
C8_SendNotConnected ==
    [][\A cmd \in Commands :
          (send_command(cmd) /\ ~Connected)
          => /\ display' = log_message(display, <<"Not connected.">>)
             /\ ui_pc' = "idle"
             /\ UNCHANGED <<written, log_queue>>]_vars

\* Connect, the worker failed to open the port and terminated, then a command
C8_Witness ==
    /\ nevents = 2
    /\ callback = "send_command"
    /\ serial_thread # 0 /\ pc[serial_thread] = "done"
    /\ display.log_text = [n |-> 1, last |-> <<"Not connected.">>]
    /\ written = <<>>

\* C9: connect() while a worker is alive makes no worker and logs a line.
C9_ConnectWhileAlive ==
    [][(connect /\ \E w \in Workers : is_alive(w))
       => /\ pc' = pc
          /\ serial_thread' = serial_thread
          /\ display'.log_text.n = display.log_text.n + 1]_vars

\* float() accepts the text and the value is a finite number
IsFinite(text) == FloatOK(text) /\ Float(text).k = "num"

\* C10: start_calibration on a text that is not a finite decimal number logs
\* the error, does not arm and begins no write.
C10_NonFiniteRejected ==
    [][\A text \in CalTexts :
          (start_calibration(text) /\ Connected /\ ~IsFinite(text))
          => /\ display' = log_message(display,
                    <<"Error: Invalid calibration weight. Please enter a number.">>)
             /\ ui_pc' = "idle"
             /\ UNCHANGED <<calibration_weight, is_calibrating, written>>]_vars

\* C11: the step of run() in which the open fails puts the one log entry
\* "Error: Failed to connect.", reads and writes nothing, puts nothing on
\* data_queue, raises nothing into Tk and ends the thread; and a worker whose
\* open failed stays terminated, has read no line, and nothing is ever written
\* through it.
C11_OpenFailure ==
    [][\A w \in Workers :
          /\ (pc[w] = "start" /\ pc'[w] # "start" /\ serial_connection'[w] = "none")
             => /\ pc'[w] = "done"
                /\ log_queue' = Append(log_queue, <<"Error: Failed to connect.">>)
                /\ UNCHANGED <<written, data_queue, readLog, running, tk_error,
                               display>>
          /\ (pc[w] = "done" /\ serial_connection[w] = "none")
             => /\ pc'[w] = "done"
                /\ readLog'[w] = <<>>
                /\ \A i \in 1..Len(written') : written'[i].by # w]_vars

\* The open failed, the thread has ended, and the UI has shown its one entry
C11_Witness ==
    \E w \in Workers :
        /\ pc[w] = "done" /\ serial_connection[w] = "none"
        /\ \A v \in Workers : v # w => pc[v] = "new"
        /\ log_queue = <<>>
        /\ display.log_text = [n |-> 1, last |-> <<"Error: Failed to connect.">>]
        /\ nevents = MaxEvents

Min(a, b) == IF a <= b THEN a ELSE b

\* The last n elements of s
LastN(s, n) == SubSeq(s, Len(s) - n + 1, Len(s))

\* The lines taken so far that parse_and_update passed to update_cop_display
PushedLines == SelectSeq(taken, cop_match)
PushedX == [i \in 1..Len(PushedLines) |-> Float(PushedLines[i][2])]
PushedY == [i \in 1..Len(PushedLines) |-> Float(PushedLines[i][4])]

\* C12: after M pushes the trail history holds the last min(M, N) points
\* pushed, in push order, N being PLOT_HISTORY_LENGTH; so it is never longer
\* than N, and the x and y histories have the same length.
C12_HistoryWindow ==
    LET K == Min(Len(PushedLines), PLOT_HISTORY_LENGTH)
    IN /\ display.x_com_history = LastN(PushedX, K)
       /\ display.y_com_history = LastN(PushedY, K)
       /\ Len(display.x_com_history) = Len(display.y_com_history)
       /\ Len(display.x_com_history) <= PLOT_HISTORY_LENGTH

\* More points than the capacity have been pushed, and the oldest are gone
C12_Witness ==
    /\ Len(PushedLines) = MaxPushes
    /\ MaxPushes > PLOT_HISTORY_LENGTH
    /\ Len(display.x_com_history) = PLOT_HISTORY_LENGTH
    /\ display.x_com_history[1] = PushedX[MaxPushes - PLOT_HISTORY_LENGTH + 1]
    /\ display.x_com_history[1] # PushedX[1]

\* C13: no weight label shows a negative value: every value of a weight
\* reading reaches the labels as a number >= 0.0.
C13_WeightsClamped ==
    \A i \in 1..4 :
        FloatOK(display.weight_labels[i]) => Float(display.weight_labels[i]).v >= 0

\* The step of run() in which worker w reads a line that fails to decode: the
\* only step of w that reports "An error occurred in serial thread"
DecodeFails(w) ==
    /\ pc[w] = "read" /\ pc'[w] # "read"
    /\ log_queue' = Append(log_queue, <<"An error occurred in serial thread.">>)

\* C14: a line that fails to decode leaves the worker in the loop with the
\* port open, and the line is on its way to data_queue.
C14_DecodeErrorForwarded ==
    [][\A w \in Workers :
          DecodeFails(w)
          => /\ pc'[w] = "put"
             /\ serial_connection'[w] = "open"
             /\ running'[w] = running[w]]_vars

\* C15: a send on the Tk thread that has passed the is_open test never finds
\* the port closed by the worker when it writes (the write would raise in the
\* Tk callback).
C15_NoEscapeIntoUI ==
    ui_pc = "write" => serial_connection[serial_thread] = "open"

\* The step in which the UI takes the line l from data_queue
Takes(l) == taken' = Append(taken, l)

\* C16: taking a line that matches neither pattern adds the one log line
\* "Received: <line>" with the line as it was, changes nothing else of the
\* display (weight labels, trail history) and raises nothing.
C16_UnrecognizedLine ==
    [][\A l \in ParseLines :
          (Takes(l) /\ ~weight_match(l) /\ ~cop_match(l))
          => /\ display'.log_text = [n |-> display.log_text.n + 1,
                                     last |-> <<"Received: ">> \o l]
             /\ display'.weight_labels = display.weight_labels
             /\ display'.x_com_history = display.x_com_history
             /\ display'.y_com_history = display.y_com_history
             /\ tk_error' = tk_error]_vars

\* After a weight line and a CoP line, a line whose fourth value has no
\* fraction has been taken: logged, labels and history as they were
C16_Witness ==
    /\ taken = << Strip(WeightRaw), Strip(CopRaw),
                  <<"1.00", ",", "2.00", ",", "3.00", ",", "5">> >>
    /\ display.log_text = [n |-> 3, last |-> <<"Received: ", "1.00", ",", "2.00",
                                               ",", "3.00", ",", "5">>]
    /\ display.weight_labels[4] = "-4.00"
    /\ Len(display.x_com_history) = 1

\* A line "(x, y)" of two signed decimals
CopForm(l) ==
    /\ Len(l) = 5
    /\ l[1] = "(" /\ IsDecimal(l[2]) /\ l[3] = ", " /\ IsDecimal(l[4]) /\ l[5] = ")"

\* C17: taking a line "(x, y)" appends the one point (x, y), with the values
\* of its two decimals as they are, to the trail history (which is below its
\* capacity in these runs), and taking a weight reading leaves the history
\* unchanged.
C17_CopPointAppended ==
    [][\A l \in ParseLines :
          /\ (Takes(l) /\ CopForm(l))
             => /\ display'.x_com_history =
                       Append(display.x_com_history, Float(l[2]))
                /\ display'.y_com_history =
                       Append(display.y_com_history, Float(l[4]))
          /\ (Takes(l) /\ weight_match(l))
             => /\ display'.x_com_history = display.x_com_history
                /\ display'.y_com_history = display.y_com_history]_vars

\* A point outside [-1, 1] is in the history as sent, and a weight reading
\* taken after it has not changed the history
C17_Witness ==
    /\ taken = << Strip(CopRaw), <<"(", "3.00", ", ", "-4.00", ")">>,
                  Strip(WeightRaw) >>
    /\ display.x_com_history = <<Num(50), Num(300)>>
    /\ display.y_com_history = <<Num(-25), Num(-400)>>

\* Two start_calibration calls on w with different weights have returned, and
\* the only reply written so far carries the first weight: it was written
\* before the second call set its weight, so no reply has followed that call
SecondArmPending(w) ==
    /\ Len(calls[w].args) = 2 /\ calls[w].ended = 2
    /\ calls[w].args[1] # calls[w].args[2]
    /\ RepliesBy(w) = <<Reply(w, calls[w].args[1])>>

\* C18: an arm request is not lost: while no reply has been written after a
\* start_calibration call that has returned, the armed flag is set.
C18_ArmNotLost ==
    \A w \in Workers : SecondArmPending(w) => is_calibrating[w]

\* C19: the "Sent calibration weight" entry the worker logs after a reply
\* names the weight that the reply carried onto the wire.
C19_LoggedWeightIsWritten ==
    [][\A w \in Workers :
          (pc[w] = "log_weight" /\ pc'[w] = "clear")
          => log_queue' = Append(log_queue, <<"Sent calibration weight: ",
                                              Last(RepliesBy(w)).data[1]>>)]_vars

\* C20: SerialThread.send called while the port is not open (not yet opened,
\* or closed) writes nothing and adds a log entry.
C20_SendNotRunningLogged ==
    [][(ui_pc = "send" /\ ui_pc' # "send"
        /\ serial_connection[serial_thread] # "open")
       => /\ written' = written
          /\ \/ Len(log_queue') = Len(log_queue) + 1
             \/ display'.log_text.n = display.log_text.n + 1]_vars

\* Worker w is past its read loop
Leaving(w) == pc[w] \in {"close", "closed", "done"}

\* C21: the step in which a SerialException is raised in the loop of worker w
\* puts the error entry on log_queue, forwards nothing and leaves the loop;
\* from then on the worker reads and forwards nothing, only closes the port,
\* which is never open again, and ends; and under fair scheduling it does end.
C21_IOErrorEndsWorker ==
    /\ [][\A w \in Workers :
             /\ (w \notin io_error /\ w \in io_error')
                => /\ pc[w] \in {"read", "reply"}
                   /\ pc'[w] = "close"
                   /\ log_queue' = Append(log_queue,
                                          <<"Error: Serial device disconnected.">>)
                   /\ UNCHANGED <<data_queue, written, serial_connection>>
             /\ w \in io_error
                => /\ Leaving(w) /\ pc'[w] \in {"close", "closed", "done"}
                   /\ pc[w] # "close" => serial_connection[w] = "closed"
                   /\ serial_connection[w] = "closed"
                      => serial_connection'[w] = "closed"
                   /\ readLog'[w] = readLog[w]
                   /\ pc'[w] # pc[w] => data_queue' = data_queue]_vars
    /\ \A w \in Workers : (w \in io_error) ~> (pc[w] = "done")

\* A worker that had forwarded a line met the error, closed the port and ended
C21_Witness ==
    \E w \in Workers :
        /\ w \in io_error
        /\ pc[w] = "done" /\ serial_connection[w] = "closed"
        /\ Len(readLog[w]) = 1
        /\ taken = <<readLog[w][1].line>>

\* The step in which worker w writes a weight reply
WritesReply(w) ==
    /\ written' # written
    /\ Last(written').by = w /\ IsReply(Last(written'))

\* C22: a non-empty line read goes to the calibration test before it is put;
\* a reply is written only for a prompt line that has been read and not yet
\* put; from the reply the worker goes on, without reading or putting anything
\* in between, to the put; and the put appends the line once and returns to
\* the loop, so the line is put again only if it is read again.
C22_CheckBeforePut ==
    [][\A w \in Workers :
          /\ (pc[w] = "read" /\ readLog'[w] # readLog[w])
             => /\ pc'[w] = IF Contains(PROMPT, line'[w]) /\ is_calibrating[w]
                            THEN "reply" ELSE "put"
                /\ data_queue' = data_queue
          /\ WritesReply(w)
             => /\ pc[w] = "reply" /\ pc'[w] = "log_weight"
                /\ Contains(PROMPT, line[w])
                /\ line[w] = Last(readLog[w]).line
                /\ data_queue' = data_queue
          /\ (pc[w] \in {"log_weight", "clear"} /\ pc'[w] # pc[w])
             => /\ pc'[w] = IF pc[w] = "log_weight" THEN "clear" ELSE "put"
                /\ line'[w] = line[w]
                /\ data_queue' = data_queue
          /\ (pc[w] = "put" /\ pc'[w] # "put")
             => /\ data_queue' = Append(data_queue, line[w])
                /\ pc'[w] = "loop"
          /\ (pc[w] # "put" /\ pc'[w] = "put")
             => pc[w] = "clear" \/ (pc[w] = "read" /\ readLog'[w] # readLog[w])]_vars

NumberOf(l, s) == Cardinality({i \in 1..Len(s) : s[i] = l})

\* The one worker answered a prompt line and then put it: the reply is
\* written and the line is once in what the UI has taken or will take
C22_Witness ==
    /\ \A w \in Workers : w # 1 => pc[w] = "new"
    /\ pc[1] = "loop"
    /\ Len(RepliesBy(1)) = 1
    /\ Len(readLog[1]) = 1
    /\ NumberOf(Strip(PromptRaw), taken \o data_queue) = 1

\* C24: a worker that has ended does not have its port open; a worker that
\* opened the port ends only by the step that puts "Serial connection closed."
\* on log_queue, with the port closed; and a worker that has ended takes no
\* further step, so that entry is its last.
C24_ClosedBeforeTerminated ==
    [][\A w \in Workers :
          /\ pc'[w] = "done" => serial_connection'[w] # "open"
          /\ (pc[w] # "done" /\ pc'[w] = "done" /\ serial_connection[w] # "none")
             => /\ serial_connection[w] = "closed"
                /\ log_queue' = Append(log_queue, <<"Serial connection closed.">>)
          /\ pc[w] = "done"
             => /\ pc'[w] = "done"
                /\ serial_connection'[w] = serial_connection[w]]_vars

\* One worker left the loop on a stop request, another on an I/O error; both
\* have closed their ports and ended
C24_Witness ==
    \E v, w \in Workers :
        /\ v \notin io_error /\ w \in io_error
        /\ pc[v] = "done" /\ serial_connection[v] = "closed"
        /\ pc[w] = "done" /\ serial_connection[w] = "closed"

\* f >= 0.0
Ge0(f) == f.k \in {"num", "inf"} /\ f.v >= 0

\* -1.0 <= f <= 1.0
InUnit(f) ==
    CASE f.k = "num" -> -100 <= f.v /\ f.v <= 100
      [] f.k = "quot" -> Abs(f.v[1]) <= Abs(f.v[2])
      [] OTHER -> FALSE

\* The result r of read_weight is None or a list of four values >= 0.0
FourNonNegative(r) ==
    \/ r.k = "none"
    \/ r.k = "list" /\ Len(r.v) = 4 /\ \A i \in 1..4 : Ge0(r.v[i])

\* On every line that decodes, read_weight returns None or four values
\* >= 0.0, and None when the tokens are not four numbers
ReadWeightOnDecodable ==
    \A raw \in PlotRawLines : Decodable(raw) =>
        LET r == read_weight([in_waiting |-> 1, readline |-> raw])
            parts == Split(Strip(raw))
        IN /\ FourNonNegative(r)
           /\ (Len(parts) # 4 \/ \E i \in 1..Len(parts) : ~PartOK(parts[i]))
                 => r.k = "none"

\* From four finite weights, center_of_mass returns without dividing by zero
\* a point of [-1, 1] x [-1, 1], (0.0, 0.0) when the weights sum to zero
ComOfFiniteInUnit ==
    (plot_pc = "loop" /\ weights.k = "list" /\ xy.k # "none"
        /\ \A i \in 1..4 : weights.v[i].k = "num") =>
        /\ xy.k = "list"
        /\ InUnit(xy.v[1]) /\ InUnit(xy.v[2])
        /\ (\A i \in 1..4 : weights.v[i] = Num(0)) =>
              \A j \in 1..2 : xy.v[j].k = "num" /\ xy.v[j].v = 0

\* C23: read_weight returns None or a list of exactly four values, each
\* >= 0.0, and no exception leaves it to the main loop whatever line the port
\* delivers.
C23_ReadWeightTotal ==
    /\ FourNonNegative(weights)
    /\ weights.k # "raised"

\* C25: from four non-negative weights as read_weight returns them,
\* center_of_mass returns a point whose two coordinates are inside [-1, 1],
\* and never divides by zero.
C25_ComInUnit ==
    xy.k # "none" =>
        /\ xy.k = "list"
        /\ InUnit(xy.v[1]) /\ InUnit(xy.v[2])

====
